---- MODULE Spec2Model ----
(***************************************************************************)
(* Term statistics index of program1.py: the Token record, the             *)
(* DataStructure index with its addDocument ingestion, and report_stats    *)
(* (ranking, top-K table, rank lookups, DF==1 statistic).                  *)
(*                                                                         *)
(* Strings are sequences of character codes, compared as Python compares   *)
(* str values (lexicographically, a proper prefix first).  The tokens of   *)
(* the model are digit strings, which TOKENIZER ([a-z0-9]+) produces as    *)
(* they are; a digit character is written as its digit, which orders the   *)
(* characters as their code points do.                                     *)
(***************************************************************************)
EXTENDS Integers, Sequences, FiniteSets

\* ------------------------------------------------------------------ bounds
\* Longest token sequence of one addDocument call.
MaxTokens == 2
\* Number of addDocument calls before the report.
MaxCalls == 2
\* Greatest rank print_rank is applied to beside 500, 1000 and 5000.
MaxRank == 4
\* Longest token sequence of each of the two concurrent addDocument calls.
MaxConcTokens == 2

\* The terms the documents are written in: "1", "10", "2".
Terms == {<<1>>, <<1, 0>>, <<2>>}
\* The document identifiers (the same identifier may be ingested twice).
DocIds == {1, 2}

TokenSeqs == UNION {[1..n -> Terms] : n \in 0..MaxTokens}

\* The two concurrent callers, the terms and the sequences of their calls.
Threads == {1, 2}
ConcTerms == {<<1>>, <<2>>}
ConcTokenSeqs == UNION {[1..n -> ConcTerms] : n \in 0..MaxConcTokens}

\* ------------------------------------------------------------------ state
VARIABLES
    tokens,                 \* DataStructure.tokens: the dict, as its items in insertion order
    vocabulary_size,        \* DataStructure.vocabulary_size
    collection_size,        \* DataStructure.collection_size
    number_of_documents,    \* DataStructure.number_of_documents
    phase,                  \* "ingest" while documents are parsed, "reported" after report_stats
    out,                    \* what report_stats printed
    calls,                  \* history: number of addDocument calls made
    lastDoc,                \* history: doc_id of the last addDocument call
    occ,                    \* history: term -> occurrences in all ingested sequences
    containing,             \* history: term -> doc_id of every call whose sequence held it, in call order
    totalLen,               \* history: sum of the lengths of the ingested sequences
    probe,                  \* the line of print_rank for a rank other than the three of the report
    mode,                   \* two concurrent callers: "sequential" or "interleaved" ("off": one caller)
    heap,                   \* two concurrent callers: the Token objects, by allocation
    refs,                   \* two concurrent callers: the dict, its items [term, ref] in insertion order
    callOf,                 \* two concurrent callers: thread -> the (doc_id, tokens) of its call
    th                      \* two concurrent callers: thread -> position and locals of its call

seqVars == <<tokens, phase, out, calls, lastDoc, occ, containing, totalLen, probe>>
concVars == <<mode, heap, refs, callOf, th>>
vars == <<tokens, vocabulary_size, collection_size, number_of_documents, phase, out,
          calls, lastDoc, occ, containing, totalLen, probe, mode, heap, refs, callOf, th>>

\* ---------------------------------------------------------------- helpers
Range(s) == {s[i] : i \in 1..Len(s)}

RECURSIVE Count(_, _)
Count(t, s) == IF s = <<>> THEN 0
               ELSE (IF Head(s) = t THEN 1 ELSE 0) + Count(t, Tail(s))

\* Python's str comparison a < b.
RECURSIVE StrLess(_, _)
StrLess(a, b) ==
    IF b = <<>> THEN FALSE
    ELSE IF a = <<>> THEN TRUE
    ELSE IF Head(a) # Head(b) THEN Head(a) < Head(b)
    ELSE StrLess(Tail(a), Tail(b))

\* ------------------------------------------------------------------ Token
Token(token, collection_frequency, document_frequency, document_listing) ==
    [token |-> token,
     collection_frequency |-> collection_frequency,
     document_frequency |-> document_frequency,
     document_listing |-> document_listing]

\* Variant: the occurrence is not counted.
IncCF_Noop(tok) == tok

incrementCollectionFrequency(tok) ==
    [tok EXCEPT !.collection_frequency = @ + 1]

incrementDocumentFrequency(tok) ==
    [tok EXCEPT !.document_frequency = @ + 1]

\* Variant: the identifier is put at the front of the listing.
AddListing_Front(tok, newDoc) ==
    [tok EXCEPT !.document_listing = <<newDoc>> \o @]

addDocumentListing(tok, newDoc) ==
    [tok EXCEPT !.document_listing = Append(@, newDoc)]

\* ---------------------------------------------------------- DataStructure
\* self.tokens.get(t): the position of t's item in the dict, 0 for None.
Get(toks, t) ==
    IF \E i \in 1..Len(toks) : toks[i].token = t
    THEN CHOOSE i \in 1..Len(toks) : toks[i].token = t
    ELSE 0

\* Variant: every occurrence of a known term lists the document.
ShouldList_Always(seen_in_doc, t, doc_id, tok) == TRUE

\* Variant: the per-call set alone, without the test of the listing.
ShouldList_SeenOnly(seen_in_doc, t, doc_id, tok) == t \notin seen_in_doc

\* line 48: t not in seen_in_doc and doc_id not in tok.document_listing
ShouldList(seen_in_doc, t, doc_id, tok) ==
    /\ t \notin seen_in_doc
    /\ doc_id \notin Range(tok.document_listing)

\* Variant: the increment is outside the branch, made for every token.
Vocabulary_PerToken(v, tok_is_none) == v + 1

\* lines 42-44: self.vocabulary_size += 1 in the branch of a term that is no key yet.
Vocabulary(v, tok_is_none) == IF tok_is_none THEN v + 1 ELSE v

\* One iteration of the loop of addDocument (lines 40-51) on the local state
\* st = [tokens, vocabulary_size, collection_size, seen_in_doc].
LoopBody(st, doc_id, t) ==
    LET i == Get(st.tokens, t) IN
    IF i = 0
    THEN [tokens |-> Append(st.tokens, Token(t, 1, 1, <<doc_id>>)),
          vocabulary_size |-> Vocabulary(st.vocabulary_size, TRUE),
          collection_size |-> st.collection_size + 1,
          seen_in_doc |-> st.seen_in_doc \cup {t}]
    ELSE LET tok1 == incrementCollectionFrequency(st.tokens[i]) IN
         IF ShouldList(st.seen_in_doc, t, doc_id, tok1)
         THEN [tokens |-> [st.tokens EXCEPT ![i] =
                              incrementDocumentFrequency(addDocumentListing(tok1, doc_id))],
               vocabulary_size |-> Vocabulary(st.vocabulary_size, FALSE),
               collection_size |-> st.collection_size + 1,
               seen_in_doc |-> st.seen_in_doc \cup {t}]
         ELSE [tokens |-> [st.tokens EXCEPT ![i] = tok1],
               vocabulary_size |-> Vocabulary(st.vocabulary_size, FALSE),
               collection_size |-> st.collection_size + 1,
               seen_in_doc |-> st.seen_in_doc]

\* for t in tokens: ...
RECURSIVE Loop(_, _, _)
Loop(st, doc_id, toks) ==
    IF toks = <<>> THEN st
    ELSE Loop(LoopBody(st, doc_id, Head(toks)), doc_id, Tail(toks))

\* ds.addDocument(doc_id, toks), the whole call.
addDocument(doc_id, toks) ==
    LET st == Loop([tokens |-> tokens,
                    vocabulary_size |-> vocabulary_size,
                    collection_size |-> collection_size,
                    seen_in_doc |-> {}], doc_id, toks) IN
    /\ phase = "ingest"
    /\ calls < MaxCalls
    /\ number_of_documents' = number_of_documents + 1
    /\ tokens' = st.tokens
    /\ vocabulary_size' = st.vocabulary_size
    /\ collection_size' = st.collection_size
    /\ calls' = calls + 1
    /\ lastDoc' = doc_id
    /\ occ' = [t \in Terms |-> occ[t] + Count(t, toks)]
    /\ containing' = [t \in Terms |->
                         IF t \in Range(toks) THEN Append(containing[t], doc_id)
                         ELSE containing[t]]
    /\ totalLen' = totalLen + Len(toks)
    /\ UNCHANGED <<phase, out, probe, concVars>>

AddDocument == \E doc_id \in DocIds, toks \in TokenSeqs : addDocument(doc_id, toks)

\* ----------------------------------------------------------- report_stats
\* The numbers report_stats is written with.
TopK == 100

\* print_rank(500); print_rank(1000); print_rank(5000)
RankRequests == <<500, 1000, 5000>>

\* list(ds.tokens.items()): the (term, Token) pairs in the dict's order.
Items(toks) == [i \in 1..Len(toks) |-> <<toks[i].token, toks[i]>>]

\* Variant: the key without the term, ties left in the dict's order.
SortKey_NoTieBreak(kv) == <<0 - kv[2].collection_frequency, <<>>>>

\* key=lambda kv: (-kv[1].collection_frequency, kv[0])
SortKey(kv) == <<0 - kv[2].collection_frequency, kv[1]>>

\* Python's tuple comparison x < y of two keys (int, str).
KeyLess(x, y) == \/ x[1] < y[1]
                 \/ x[1] = y[1] /\ StrLess(x[2], y[2])

\* s is sorted; x goes after every element whose key is not greater than x's,
\* as a stable sort places a later element.
RECURSIVE InsertStable(_, _)
InsertStable(s, x) ==
    IF s = <<>> THEN <<x>>
    ELSE LET last == s[Len(s)] IN
         IF KeyLess(SortKey(x), SortKey(last))
         THEN Append(InsertStable(SubSeq(s, 1, Len(s) - 1), x), last)
         ELSE Append(s, x)

\* sorted(items, key=...): a stable sort by the key.
RECURSIVE Sorted(_)
Sorted(items) ==
    IF items = <<>> THEN <<>>
    ELSE InsertStable(Sorted(SubSeq(items, 1, Len(items) - 1)), items[Len(items)])

Min(a, b) == IF a <= b THEN a ELSE b

\* One line of the top-100 table: rank, term, CF, DF.
Row(rank, kv) == [rank |-> rank, term |-> kv[1],
                  cf |-> kv[2].collection_frequency, df |-> kv[2].document_frequency]

\* Variant: r < vocab_size.
InRange_Strict(r, vocab_size) == r < vocab_size

\* line 90: r <= vocab_size
InRange(r, vocab_size) == r <= vocab_size

\* line 91: sorted_items[r - 1] of a 0-based list is the r-th element.
RankIndex(r) == r

\* print_rank(r) within report_stats: the line it prints (a list index past
\* the end raises IndexError).
print_rank(r, sorted_items, vocab_size) ==
    IF InRange(r, vocab_size)
    THEN IF RankIndex(r) \in 1..Len(sorted_items)
         THEN LET kv == sorted_items[RankIndex(r)] IN
              [kind |-> "entry", r |-> r, term |-> kv[1],
               cf |-> kv[2].collection_frequency, df |-> kv[2].document_frequency]
         ELSE [kind |-> "IndexError", r |-> r]
    ELSE [kind |-> "N/A", r |-> r, vocab_size |-> vocab_size]

\* Variant: the test is made on collection_frequency.
IsSingleton_CF(tok) == tok.collection_frequency = 1

\* line 101: tok.document_frequency == 1
IsSingleton(tok) == tok.document_frequency = 1

\* a / b * 100.0 on floats, kept as the exact fraction; a zero divisor raises.
Percent(a, b) == IF b = 0 THEN [kind |-> "ZeroDivisionError"]
                 ELSE [kind |-> "float", num |-> a * 100, den |-> b]

\* line 102: (df_eq_1 / vocab_size * 100.0) if vocab_size else 0.0
Pct(df_eq_1, vocab_size) ==
    IF vocab_size # 0 THEN Percent(df_eq_1, vocab_size)
    ELSE [kind |-> "float", num |-> 0, den |-> 1]

\* report_stats(ds): everything it prints, and the locals the lines are made of.
ReportOf(toks, ndocs, vsize, csize) ==
    LET items == Items(toks)
        sorted_items == Sorted(items)
        vocab_size == Len(sorted_items)
        top_k == Min(TopK, vocab_size)
        df_eq_1 == Cardinality({i \in 1..Len(items) : IsSingleton(items[i][2])})
    IN [printed |-> TRUE,
        number_of_documents |-> ndocs,
        vocabulary_size |-> vsize,
        collection_size |-> csize,
        sorted_items |-> sorted_items,
        vocab_size |-> vocab_size,
        top |-> [i \in 1..top_k |-> Row(i, sorted_items[i])],
        ranks |-> [j \in 1..Len(RankRequests) |->
                      print_rank(RankRequests[j], sorted_items, vocab_size)],
        df_eq_1 |-> df_eq_1,
        pct |-> Pct(df_eq_1, vocab_size)]

\* report_stats(data), once the documents are parsed (lines 107-115).
ReportStats ==
    /\ phase = "ingest"
    /\ phase' = "reported"
    /\ out' = ReportOf(tokens, number_of_documents, vocabulary_size, collection_size)
    /\ UNCHANGED <<tokens, vocabulary_size, collection_size, number_of_documents,
                   calls, lastDoc, occ, containing, totalLen, probe, concVars>>

\* print_rank(r) of the report's closure, for a rank of 1..MaxRank.
PrintRank ==
    /\ phase = "reported"
    /\ \E r \in 1..MaxRank : probe' = print_rank(r, out.sorted_items, out.vocab_size)
    /\ UNCHANGED <<tokens, vocabulary_size, collection_size, number_of_documents, phase, out,
                   calls, lastDoc, occ, containing, totalLen, concVars>>

\* ------------------------------------------------------------------ Spec
\* DataStructure(): the empty index, nothing reported.
InitIndex ==
    /\ tokens = <<>>
    /\ vocabulary_size = 0
    /\ collection_size = 0
    /\ number_of_documents = 0
    /\ phase = "ingest"
    /\ out = [printed |-> FALSE]
    /\ calls = 0
    /\ lastDoc = 0
    /\ occ = [t \in Terms |-> 0]
    /\ containing = [t \in Terms |-> <<>>]
    /\ totalLen = 0
    /\ probe = [kind |-> "none"]

Init ==
    /\ InitIndex
    /\ mode = "off"
    /\ heap = <<>>
    /\ refs = <<>>
    /\ callOf = <<>>
    /\ th = <<>>

Next == AddDocument \/ ReportStats

Spec == Init /\ [][Next]_vars

\* The report, and print_rank on further ranks.
NextRank == AddDocument \/ ReportStats \/ PrintRank

SpecRank == Init /\ [][NextRank]_vars

\* ------------------------------------- addDocument, two callers, step by step
\* The steps of addDocument are those between which another thread may run:
\* the lookup (line 41), the creation and insertion of a record (43), each
\* counter increment (37, 40, 44, 47, 50), the test of line 48 and the append
\* (49).  mode "sequential" lets the second call start when the first is over.

\* self.tokens.get(t) on the dict of references: the object, 0 for None.
GetRef(rs, t) ==
    IF \E i \in 1..Len(rs) : rs[i].term = t
    THEN rs[CHOOSE i \in 1..Len(rs) : rs[i].term = t].ref
    ELSE 0

\* self.tokens[t] = the object ref: a new item, or the new value of the key.
SetRef(rs, t, ref) ==
    IF \E i \in 1..Len(rs) : rs[i].term = t
    THEN [rs EXCEPT ![CHOOSE i \in 1..Len(rs) : rs[i].term = t].ref = ref]
    ELSE Append(rs, [term |-> t, ref |-> ref])

\* The dict as the sequential model holds it: the records of its items.
TokensOf(rs, hp) == [i \in 1..Len(rs) |-> hp[rs[i].ref]]

MayRun(i) == mode = "interleaved" \/ i = 1 \/ th[1].pc = "done"

Goto(i, pc) == [th EXCEPT ![i].pc = pc]

\* line 37-38: self.number_of_documents += 1; seen_in_doc = set()
T_Start(i) ==
    /\ MayRun(i) /\ th[i].pc = "start"
    /\ number_of_documents' = number_of_documents + 1
    /\ th' = [th EXCEPT ![i].pc = "for", ![i].seen_in_doc = {}]
    /\ UNCHANGED <<vocabulary_size, collection_size, heap, refs, mode, callOf, seqVars>>

\* line 39-40: the next token, if any, and self.collection_size += 1
T_NextToken(i) ==
    /\ MayRun(i) /\ th[i].pc = "for" /\ th[i].rest # <<>>
    /\ collection_size' = collection_size + 1
    /\ th' = [th EXCEPT ![i].pc = "get", ![i].t = Head(th[i].rest),
                        ![i].rest = Tail(th[i].rest)]
    /\ UNCHANGED <<vocabulary_size, number_of_documents, heap, refs, mode, callOf, seqVars>>

\* line 39: the sequence is exhausted, the call returns
T_Return(i) ==
    /\ MayRun(i) /\ th[i].pc = "for" /\ th[i].rest = <<>>
    /\ th' = Goto(i, "done")
    /\ UNCHANGED <<vocabulary_size, collection_size, number_of_documents, heap, refs,
                   mode, callOf, seqVars>>

\* line 41-42: tok = self.tokens.get(t); if tok is None
T_Get(i) ==
    /\ MayRun(i) /\ th[i].pc = "get"
    /\ LET ref == GetRef(refs, th[i].t) IN
       th' = [th EXCEPT ![i].tok = ref,
                        ![i].pc = IF ref = 0 THEN "create" ELSE "inccf"]
    /\ UNCHANGED <<vocabulary_size, collection_size, number_of_documents, heap, refs,
                   mode, callOf, seqVars>>

\* line 43: self.tokens[t] = Token(t, 1, 1, [doc_id])
T_Create(i) ==
    /\ MayRun(i) /\ th[i].pc = "create"
    /\ heap' = Append(heap, Token(th[i].t, 1, 1, <<callOf[i].doc_id>>))
    /\ refs' = SetRef(refs, th[i].t, Len(heap) + 1)
    /\ th' = Goto(i, "vocab")
    /\ UNCHANGED <<vocabulary_size, collection_size, number_of_documents, mode, callOf, seqVars>>

\* line 44-45: self.vocabulary_size += 1; seen_in_doc.add(t)
T_Vocab(i) ==
    /\ MayRun(i) /\ th[i].pc = "vocab"
    /\ vocabulary_size' = Vocabulary(vocabulary_size, TRUE)
    /\ th' = [th EXCEPT ![i].pc = "for", ![i].seen_in_doc = @ \cup {th[i].t}]
    /\ UNCHANGED <<collection_size, number_of_documents, heap, refs, mode, callOf, seqVars>>

\* line 47: tok.incrementCollectionFrequency()
T_IncCF(i) ==
    /\ MayRun(i) /\ th[i].pc = "inccf"
    /\ heap' = [heap EXCEPT ![th[i].tok] = incrementCollectionFrequency(@)]
    /\ th' = Goto(i, "check")
    /\ UNCHANGED <<vocabulary_size, collection_size, number_of_documents, refs,
                   mode, callOf, seqVars>>

\* line 48: if t not in seen_in_doc and doc_id not in tok.document_listing
T_Check(i) ==
    /\ MayRun(i) /\ th[i].pc = "check"
    /\ th' = Goto(i, IF ShouldList(th[i].seen_in_doc, th[i].t, callOf[i].doc_id,
                                   heap[th[i].tok])
                     THEN "append" ELSE "for")
    /\ UNCHANGED <<vocabulary_size, collection_size, number_of_documents, heap, refs,
                   mode, callOf, seqVars>>

\* line 49: tok.addDocumentListing(doc_id)
T_Append(i) ==
    /\ MayRun(i) /\ th[i].pc = "append"
    /\ heap' = [heap EXCEPT ![th[i].tok] = addDocumentListing(@, callOf[i].doc_id)]
    /\ th' = Goto(i, "incdf")
    /\ UNCHANGED <<vocabulary_size, collection_size, number_of_documents, refs,
                   mode, callOf, seqVars>>

\* line 50-51: tok.incrementDocumentFrequency(); seen_in_doc.add(t)
T_IncDF(i) ==
    /\ MayRun(i) /\ th[i].pc = "incdf"
    /\ heap' = [heap EXCEPT ![th[i].tok] = incrementDocumentFrequency(@)]
    /\ th' = [th EXCEPT ![i].pc = "for", ![i].seen_in_doc = @ \cup {th[i].t}]
    /\ UNCHANGED <<vocabulary_size, collection_size, number_of_documents, refs,
                   mode, callOf, seqVars>>

InitConc ==
    /\ InitIndex
    /\ mode \in {"sequential", "interleaved"}
    /\ heap = <<>>
    /\ refs = <<>>
    /\ callOf \in [Threads -> [doc_id : DocIds, toks : ConcTokenSeqs]]
    /\ th = [i \in Threads |-> [pc |-> "start", rest |-> callOf[i].toks, t |-> <<>>,
                                tok |-> 0, seen_in_doc |-> {}]]

NextConc ==
    \E i \in Threads :
        \/ T_Start(i) \/ T_NextToken(i) \/ T_Return(i) \/ T_Get(i) \/ T_Create(i)
        \/ T_Vocab(i) \/ T_IncCF(i) \/ T_Check(i) \/ T_Append(i) \/ T_IncDF(i)

SpecConc == InitConc /\ [][NextConc]_vars

\* ------------------------------------------------- what the claims speak of
Present(toks, t) == Get(toks, t) # 0
Rec(toks, t) == toks[Get(toks, t)]
CF(toks, t) == IF Present(toks, t) THEN Rec(toks, t).collection_frequency ELSE 0
DF(toks, t) == IF Present(toks, t) THEN Rec(toks, t).document_frequency ELSE 0
Listing(toks, t) == IF Present(toks, t) THEN Rec(toks, t).document_listing ELSE <<>>

NoDuplicates(s) == \A i, j \in 1..Len(s) : i # j => s[i] # s[j]

\* The distinct elements of s, each at the place of its first occurrence.
RECURSIVE FirstOccurrences(_)
FirstOccurrences(s) ==
    IF s = <<>> THEN <<>>
    ELSE LET front == FirstOccurrences(SubSeq(s, 1, Len(s) - 1)) IN
         IF s[Len(s)] \in Range(front) THEN front ELSE Append(front, s[Len(s)])

RECURSIVE SumCF(_)
SumCF(toks) == IF toks = <<>> THEN 0
               ELSE Head(toks).collection_frequency + SumCF(Tail(toks))

\* A step of addDocument.
IsAddDocument == calls' = calls + 1

\* C1: after every addDocument, whatever identifiers and sequences were given,
\* every record's document_frequency is the length of its document_listing and
\* the listing holds no identifier twice.
C1_ListingInvariant ==
    \A i \in 1..Len(tokens) :
        /\ tokens[i].document_frequency = Len(tokens[i].document_listing)
        /\ NoDuplicates(tokens[i].document_listing)

\* Two calls with the same identifier both held the term.
C1_Witness ==
    \E t \in Terms :
        /\ Len(containing[t]) >= 2
        /\ Cardinality(Range(containing[t])) = 1
        /\ Present(tokens, t)

\* C2: one addDocument call raises the document_frequency of a term that occurs
\* in its sequence by at most 1, however often and wherever the term occurs;
\* a term the call creates ends with document_frequency 1.
C2_DocumentFrequencyCap ==
    [][IsAddDocument =>
        \A t \in Terms :
            occ'[t] > occ[t] =>
                /\ DF(tokens', t) <= DF(tokens, t) + 1
                /\ ~Present(tokens, t) => DF(tokens', t) = 1]_vars

\* A term occurred twice in the call that created it and twice in the next
\* call, of another identifier.
C2_Witness ==
    \E t \in Terms :
        /\ calls = 2
        /\ containing[t] = <<1, 2>>
        /\ occ[t] = 4
        /\ DF(tokens, t) = 2

\* C3: the listing of a term is the distinct identifiers of the calls whose
\* sequence held the term, in the order of each identifier's first such call;
\* document_frequency is their number; a term is a key iff some call held it.
C3_ListingIsFirstSeenOrder ==
    \A t \in Terms :
        /\ Present(tokens, t) <=> containing[t] # <<>>
        /\ Listing(tokens, t) = FirstOccurrences(containing[t])
        /\ DF(tokens, t) = Cardinality(Range(containing[t]))

\* A term first seen with identifier 2 and then with identifier 1.
C3_Witness ==
    \E t \in Terms : containing[t] = <<2, 1>> /\ Listing(tokens, t) = <<2, 1>>

\* C4: collection_size is the sum of the lengths of the ingested sequences and
\* the sum of collection_frequency over the records, each collection_frequency
\* being the occurrences of its term in all the ingested sequences.
C4_CollectionSizeAccounting ==
    /\ collection_size = totalLen
    /\ collection_size = SumCF(tokens)
    /\ \A t \in Terms : CF(tokens, t) = occ[t]

\* Two calls, two terms at least, and a term that occurred in both.
C4_Witness ==
    /\ calls = 2
    /\ Len(tokens) >= 2
    /\ collection_size >= 4
    /\ \E t \in Terms : Len(containing[t]) = 2 /\ occ[t] >= 3

\* C5: vocabulary_size is the number of keys of the mapping, which is the number
\* of distinct terms ingested; so the vocabulary size of the report's summary is
\* the number the report uses for top-K, the rank lookups and the percentage.
C5_VocabularySize ==
    /\ vocabulary_size = Len(tokens)
    /\ vocabulary_size = Cardinality({tokens[i].token : i \in 1..Len(tokens)})
    /\ vocabulary_size = Cardinality({t \in Terms : occ[t] > 0})
    /\ phase = "reported" => out.vocabulary_size = out.vocab_size

\* A report of an index in which a term was ingested more than once.
C5_Witness ==
    /\ phase = "reported"
    /\ out.vocab_size = 2
    /\ \E t \in Terms : occ[t] >= 3

\* The sequences that hold each element of s exactly once.
Reorderings(s) ==
    {p \in [1..Len(s) -> Range(s)] : Range(p) = Range(s)}

\* a is ranked before b.
RankedBefore(a, b) ==
    \/ a[2].collection_frequency > b[2].collection_frequency
    \/ /\ a[2].collection_frequency = b[2].collection_frequency
       /\ StrLess(a[1], b[1])

\* C6: the ranking is a permutation of the index's (term, record) pairs, any
\* entry has a greater collection_frequency than the next or the same one and a
\* smaller term, and the ranking is the same for every order of insertion.
C6_Ranking ==
    phase = "reported" =>
        LET items == Items(tokens)
            ranked == out.sorted_items IN
        /\ Len(ranked) = Len(items)
        /\ Range(ranked) = Range(items)
        /\ \A i \in 1..(Len(ranked) - 1) : RankedBefore(ranked[i], ranked[i + 1])
        /\ \A p \in Reorderings(items) : Sorted(p) = ranked

\* Three terms, two of them tied, inserted in an order that is not the ranking.
C6_Witness ==
    /\ phase = "reported"
    /\ Len(tokens) = 3
    /\ \E i \in 1..2 : out.sorted_items[i][2].collection_frequency
                         = out.sorted_items[i + 1][2].collection_frequency
    /\ out.sorted_items # Items(tokens)
    /\ StrLess(tokens[2].token, tokens[1].token)

\* C8: the singleton count is the number of terms of document_frequency 1 (the
\* terms held by the calls of exactly one identifier); the percentage is
\* 100 * count / vocabulary size, and 0.0 without a division on an empty index.
C8_Singletons ==
    phase = "reported" =>
        /\ out.df_eq_1 = Cardinality({t \in Terms : DF(tokens, t) = 1})
        /\ out.df_eq_1 = Cardinality({t \in Terms : Cardinality(Range(containing[t])) = 1})
        /\ out.pct.kind = "float"
        /\ out.vocabulary_size > 0 =>
              out.pct.num * out.vocabulary_size = 100 * out.df_eq_1 * out.pct.den
        /\ out.vocabulary_size = 0 => out.pct.num = 0

\* A term that occurs twice in one document and in no other is counted, as
\* is the one other term: two of two terms, 100 percent.
C8_Witness ==
    /\ phase = "reported"
    /\ \E t \in Terms : occ[t] >= 2 /\ Len(containing[t]) = 1 /\ DF(tokens, t) = 1
    /\ out.df_eq_1 = 2
    /\ out.vocab_size = 2
    /\ out.pct.num = 100 * out.pct.den

\* C9 as amended: a call with an identifier that a term's listing already holds
\* leaves the term's listing and document_frequency as they are, raises its
\* collection_frequency by its occurrences in the call's sequence, raises
\* collection_size by the length of the sequence and number_of_documents by 1.
C9_ReingestKeepsListing ==
    [][IsAddDocument =>
        /\ number_of_documents' = number_of_documents + 1
        /\ collection_size' = collection_size + (totalLen' - totalLen)
        /\ \A t \in Terms :
              (Present(tokens, t) /\ lastDoc' \in Range(Listing(tokens, t))) =>
                  /\ Listing(tokens', t) = Listing(tokens, t)
                  /\ DF(tokens', t) = DF(tokens, t)
                  /\ CF(tokens', t) = CF(tokens, t) + (occ'[t] - occ[t])]_vars

\* The identifier was ingested twice and a term occurred in both calls, twice
\* in the later one.
C9_Witness ==
    \E t \in Terms :
        /\ calls = 2
        /\ containing[t] = <<lastDoc, lastDoc>>
        /\ occ[t] >= 3
        /\ Listing(tokens, t) = <<lastDoc>>

\* C9 as stated: collection_size too rises by the occurrences of the term.
C9_AsStated ==
    [][IsAddDocument =>
        /\ number_of_documents' = number_of_documents + 1
        /\ \A t \in Terms :
              (Present(tokens, t) /\ lastDoc' \in Range(Listing(tokens, t))) =>
                  /\ Listing(tokens', t) = Listing(tokens, t)
                  /\ DF(tokens', t) = DF(tokens, t)
                  /\ CF(tokens', t) = CF(tokens, t) + (occ'[t] - occ[t])
                  /\ collection_size' = collection_size + (occ'[t] - occ[t])]_vars

\* What print_rank is to print for rank r: the r-th entry of the ranking of the
\* top-K table, which r - 1 entries are ranked before, or the sentinel.
RankLineOK(line, r) ==
    /\ line.r = r
    /\ IF r <= vocabulary_size
       THEN /\ line.kind = "entry"
            /\ Present(tokens, line.term)
            /\ line.cf = CF(tokens, line.term)
            /\ line.df = DF(tokens, line.term)
            /\ Cardinality({i \in 1..Len(tokens) :
                              RankedBefore(Items(tokens)[i],
                                           <<line.term, Rec(tokens, line.term)>>)}) = r - 1
            /\ r <= Len(out.top) =>
                  Row(r, <<line.term, Rec(tokens, line.term)>>) = out.top[r]
       ELSE /\ line.kind = "N/A"
            /\ line.vocab_size = vocabulary_size

\* C7: the line of each rank is the term, CF and DF of the entry at that rank of
\* the ranking the top-K table is made of when the rank is within the
\* vocabulary, and else the sentinel with the vocabulary size; no lookup goes
\* past the end of the ranking.
C7_RankLookup ==
    phase = "reported" =>
        /\ Len(out.ranks) = Len(RankRequests)
        /\ \A j \in 1..Len(out.ranks) : RankLineOK(out.ranks[j], RankRequests[j])
        /\ probe.kind # "none" => RankLineOK(probe, probe.r)

\* The second of three ranked terms was looked up, beside the three sentinels.
C7_Witness ==
    /\ phase = "reported"
    /\ vocabulary_size = 3
    /\ probe.kind = "entry"
    /\ probe.r = 2
    /\ \A j \in 1..Len(out.ranks) : out.ranks[j].kind = "N/A"

\* No call is under way.
Idle == \A i \in Threads : th[i].pc \in {"start", "done"}
AllDone == \A i \in Threads : th[i].pc = "done"

\* The identifiers of the finished calls whose sequence held t.
DocsWith(t) ==
    {callOf[i].doc_id : i \in {j \in Threads : th[j].pc = "done" /\ t \in Range(callOf[j].toks)}}

\* The de-duplication invariant on the records of the dict.
DedupOK ==
    LET toks == TokensOf(refs, heap) IN
    \A k \in 1..Len(toks) :
        /\ toks[k].document_frequency = Cardinality(DocsWith(toks[k].token))
        /\ toks[k].document_frequency = Len(toks[k].document_listing)
        /\ NoDuplicates(toks[k].document_listing)

\* C10: when the two calls run one after the other, the de-duplication
\* invariant holds whenever no call is under way; interleaved at the steps of
\* addDocument they can both finish in a state that violates it (the witness).
C10_SequentialKeepsDedup ==
    (mode = "sequential" /\ Idle) => DedupOK

\* Both interleaved calls have finished and a record's document_frequency is
\* not the number of distinct documents that held its term.
C10_Witness ==
    /\ mode = "interleaved"
    /\ AllDone
    /\ ~DedupOK
====
